---- MODULE Spec2Model ----
(***************************************************************************)
(* Model of scripts/cluster_analysis.py: the cluster search controller of  *)
(* main (the trial loop over param_sets), the quality evaluator            *)
(* (calculate_metrics, check_quality_gates) and the artifact writer        *)
(* (save_outputs, the iterations log and the "latest" symlink).            *)
(*                                                                         *)
(* Numbers.  The silhouette score is a real in [-1,1]; the model keeps it  *)
(* in thousandths (0.3 is 300).  A percentage k / n * 100 is kept as the   *)
(* exact fraction [num |-> k * 100, den |-> n], compared by cross          *)
(* multiplication.  Python's None is the empty sequence and a value x that *)
(* is not None is <<x>>.                                                   *)
(***************************************************************************)
EXTENDS Integers, Sequences, FiniteSets, TLC

(* ------------------------------ bounds -------------------------------- *)

\* Rows of the embeddings table in a run of main.
NumRows == 5

\* Longest labeling handed to calculate_metrics on its own.
MaxRows == 5

\* Largest cluster id in a labeling handed to calculate_metrics on its own.
MaxLabel == 1

(* ------------------------ program constants --------------------------- *)

\* The noise sentinel of a labeling.
NOISE == -1

\* max_iterations in main.
max_iterations == 3

\* The candidate ParameterSets of main, in order.
param_sets ==
    << [min_cluster_size |-> 50,  min_samples |-> 10],
       [min_cluster_size |-> 30,  min_samples |-> 5],
       [min_cluster_size |-> 100, min_samples |-> 15] >>

\* Gate: silhouette_score < 0.3 is a violation (thousandths).
SilhouetteGate == 300

\* Gate: largest_cluster_pct > 40 is a violation.
LargestClusterGate == 40

\* Gate: noise_pct > 20 is a violation.
NoiseGate == 20

\* PCA_DIMS.
PCA_DIMS == 50

\* Values silhouette_score returns in the model (thousandths).
ScoreValues == {200, 300, 400}

(* ------------------------------ helpers ------------------------------- *)

None == << >>
Some(x) == << x >>

\* k / n * 100 for n > 0, as an exact fraction.
Pct(k, n) == [num |-> k * 100, den |-> n]

\* pct > gate.
PctGT(p, gate) == p.num > gate * p.den

\* What a function raises instead of returning.
Raised(e) == [raised |-> e]
IsRaised(v) == "raised" \in DOMAIN v

\* (labels == c).sum()
CountOf(labels, c) == Cardinality({r \in DOMAIN labels : labels[r] = c})

\* set(labels)
LabelSet(labels) == {labels[r] : r \in DOMAIN labels}

\* max(counts) of a non-empty cluster_sizes mapping.
MaxCount(sizes) ==
    CHOOSE n \in {sizes[c] : c \in DOMAIN sizes} :
        \A c \in DOMAIN sizes : sizes[c] <= n

(* ------------------------- calculate_metrics -------------------------- *)

\* NumClusters without the correction for the noise sentinel.
NumClusters_CountsNoise(labels) == Cardinality(LabelSet(labels))

\* n_clusters = len(set(labels)) - (1 if -1 in labels else 0)
NumClusters(labels) ==
    Cardinality(LabelSet(labels)) - (IF NOISE \in LabelSet(labels) THEN 1 ELSE 0)

\* cluster_sizes = dict(zip(unique, counts)) over labels[labels != -1]
ClusterSizes(labels) ==
    [c \in LabelSet(labels) \ {NOISE} |-> CountOf(labels, c)]

\* calculate_metrics(embeddings, labels); sil is what silhouette_score returns
\* for the non-noise rows when it is called.
CalculateMetrics(labels, sil) ==
    LET n          == Len(labels)
        n_clusters == NumClusters(labels)
        n_noise    == CountOf(labels, NOISE)
        mask_sum   == n - n_noise
        sil_score  == IF mask_sum > 1 /\ n_clusters > 1 THEN sil ELSE 0
        sizes      == ClusterSizes(labels)
        largest    == IF DOMAIN sizes # {} THEN MaxCount(sizes) ELSE 0
    IN  IF n = 0
        THEN \* n_noise / 0 is a numpy nan (a warning), then the Python
             \* int division largest_cluster_size / len(labels) = 0 / 0 raises.
             Raised("ZeroDivisionError")
        ELSE [ silhouette_score    |-> sil_score,
               num_clusters        |-> n_clusters,
               noise_points        |-> n_noise,
               noise_pct           |-> Pct(n_noise, n),
               largest_cluster_pct |-> Pct(largest, n),
               cluster_sizes       |-> sizes ]

(* ------------------------ check_quality_gates ------------------------- *)

\* One violated-gate description: the metric, its value, the threshold.
Issue(metric, value, threshold) ==
    [metric |-> metric, value |-> value, threshold |-> threshold]

\* SilhouetteViolated with <= for <: a score at the threshold fails.
SilhouetteViolated_AtThreshold(metrics) == metrics.silhouette_score <= SilhouetteGate

SilhouetteViolated(metrics) == metrics.silhouette_score < SilhouetteGate
LargestViolated(metrics) == PctGT(metrics.largest_cluster_pct, LargestClusterGate)
NoiseViolated(metrics) == PctGT(metrics.noise_pct, NoiseGate)

\* check_quality_gates(metrics): (len(issues) == 0, issues)
CheckQualityGates(metrics) ==
    LET i0 == << >>
        i1 == IF SilhouetteViolated(metrics)
              THEN Append(i0, Issue("silhouette_score",
                                    metrics.silhouette_score, SilhouetteGate))
              ELSE i0
        i2 == IF LargestViolated(metrics)
              THEN Append(i1, Issue("largest_cluster",
                                    metrics.largest_cluster_pct, LargestClusterGate))
              ELSE i1
        i3 == IF NoiseViolated(metrics)
              THEN Append(i2, Issue("noise", metrics.noise_pct, NoiseGate))
              ELSE i2
    IN  [passed |-> Len(i3) = 0, issues |-> i3]

(* ------------------------------- state -------------------------------- *)

VARIABLES
    pc,             \* position of main
    i,              \* loop index of the trial loop (0-based, as in enumerate)
    iterations,     \* the trial log
    best_metrics,   \* best-so-far selection of the controller
    best_labels,
    best_version,
    best_params,
    version_dir,    \* ARTIFACTS_DIR / "v1" exists
    files,          \* the four files of ARTIFACTS_DIR / "v1"
    latest,         \* target of ARTIFACTS_DIR / "latest", None when absent
    prior,          \* what latest referenced when the run started
    failure,        \* the uncaught exception that ended the run, None if none
    exit_status,    \* process exit status, None while running
    m_labels,       \* the labeling handed to calculate_metrics on its own
    m_result,       \* what calculate_metrics returned or raised for m_labels
    m_gates,        \* what check_quality_gates returned for m_result
    s_ids,          \* df["conversation_id"] handed to the summarizer functions
    s_labels,       \* the labeling handed to the summarizer functions
    s_embeddings,   \* the reduced embeddings handed to the summarizer functions
    s_tags,         \* df["tags"] handed to get_tag_distribution_per_cluster
    n_samples,      \* n_samples of get_cluster_representatives
    representatives, \* what get_cluster_representatives returned, None before
    tag_stats,      \* what get_tag_distribution_per_cluster returned, None before
    cluster_labels, \* what generate_labels_from_tags_and_messages returned
    assignments     \* what calculate_assignments returned, None before

vars == << pc, i, iterations, best_metrics, best_labels, best_version,
           best_params, version_dir, files, latest, prior, failure,
           exit_status, m_labels, m_result, m_gates, s_ids, s_labels,
           s_embeddings, s_tags, n_samples, representatives, tag_stats,
           cluster_labels, assignments >>

ctlVars == << i, iterations, best_metrics, best_labels, best_version, best_params >>
fsVars == << version_dir, files, latest >>
mVars == << m_labels, m_result, m_gates >>
sumVars == << s_ids, s_labels, s_embeddings, s_tags, n_samples, representatives,
             tag_stats, cluster_labels, assignments >>
mainVars == << pc, ctlVars, fsVars, prior, failure, exit_status >>

(* ---------------------------- file system ----------------------------- *)

FileNames == {"assignments.json", "labels.json", "metrics.json", "iterations.json"}

Absent == [state |-> "absent"]

\* A file an earlier, completed run of the script left behind.
Previous == [state |-> "complete", by |-> "previous"]

\* A file this run opened with "w" and finished writing.
Written(data) == [state |-> "complete", by |-> "run", data |-> data]

\* A file this run opened with "w" (truncated) and did not finish writing.
Partial == [state |-> "partial", by |-> "run"]

(* ----------------------- the density clusterer ------------------------ *)

\* Largest cluster id HDBSCAN can report for NumRows rows: a cluster has at
\* least two rows (min_cluster_size is 30 or more in every candidate).
MaxClusterId == (NumRows \div 2) - 1

\* The labelings run_clustering returns in a run of main: cluster ids are
\* 0..k-1, no cluster is a single row, and the rows are listed noise first and
\* then by cluster id (one labeling per choice of the cluster sizes; main reads
\* a labeling only through its counts).
TrialLabelings ==
    { l \in [1..NumRows -> NOISE..MaxClusterId] :
        /\ \A r \in 1..(NumRows - 1) : l[r] <= l[r + 1]
        /\ \A c \in 0..MaxClusterId :
              \/ CountOf(l, c) = 0
              \/ CountOf(l, c) >= 2
        /\ \A c \in 1..MaxClusterId :
              CountOf(l, c) > 0 => CountOf(l, c - 1) > 0 }

(* ------------------------------- main --------------------------------- *)

\* IterationLog numbering the trial by the loop index i instead of i + 1.
IterationLog_ZeroBased(idx, params, metrics, gates) ==
    [ iteration            |-> idx,
      parameters           |-> params,
      metrics              |-> [k \in DOMAIN metrics \ {"cluster_sizes"} |-> metrics[k]],
      quality_gates_passed |-> gates.passed,
      issues               |-> gates.issues ]

\* iteration_log of one trial.
IterationLog(idx, params, metrics, gates) ==
    [ iteration            |-> idx + 1,
      parameters           |-> params,
      metrics              |-> [k \in DOMAIN metrics \ {"cluster_sizes"} |-> metrics[k]],
      quality_gates_passed |-> gates.passed,
      issues               |-> gates.issues ]

\* ReplacesBest without its "passed or": a passing trial no longer displaces
\* an earlier trial of higher score.
ReplacesBest_ScoreOnly(passed, metrics, best) ==
    \/ best = None
    \/ metrics.silhouette_score > best[1].silhouette_score

\* ReplacesBest with >= for >: a later trial of equal score displaces the
\* earlier one.
ReplacesBest_OnTie(passed, metrics, best) ==
    \/ passed
    \/ best = None
    \/ metrics.silhouette_score >= best[1].silhouette_score

\* The condition under which a trial replaces the best-so-far selection.
ReplacesBest(passed, metrics, best) ==
    \/ passed
    \/ best = None
    \/ metrics.silhouette_score > best[1].silhouette_score

\* The trial loop stops on a passing trial.
LoopBreaks(passed) == passed

\* One pass of the loop body with the clusterer returning labels.
RunTrial ==
    /\ pc = "trial"
    /\ i < Len(param_sets)
    /\ i < max_iterations
    /\ \E labels \in TrialLabelings, sil \in ScoreValues :
          LET params  == param_sets[i + 1]
              metrics == CalculateMetrics(labels, sil)
          IN  IF IsRaised(metrics)
              THEN /\ pc' = "crashed"
                   /\ failure' = Some("calculate_metrics")
                   /\ exit_status' = Some(1)
                   /\ UNCHANGED ctlVars
              ELSE LET gates == CheckQualityGates(metrics)
                   IN  /\ iterations' =
                             Append(iterations, IterationLog(i, params, metrics, gates))
                       /\ IF ReplacesBest(gates.passed, metrics, best_metrics)
                          THEN /\ best_metrics' = Some(metrics)
                               /\ best_labels' = Some(labels)
                               /\ best_version' = Some(i + 1)
                               /\ best_params' = Some(params)
                          ELSE UNCHANGED << best_metrics, best_labels,
                                            best_version, best_params >>
                       /\ IF LoopBreaks(gates.passed)
                          THEN pc' = "use_best" /\ i' = i
                          ELSE pc' = "trial" /\ i' = i + 1
                       /\ UNCHANGED << failure, exit_status >>
    /\ UNCHANGED << fsVars, prior, mVars, sumVars >>

\* run_clustering raises: main has no handler, the exception ends the run.
ClustererRaises ==
    /\ pc = "trial"
    /\ i < Len(param_sets)
    /\ i < max_iterations
    /\ pc' = "crashed"
    /\ failure' = Some("run_clustering")
    /\ exit_status' = Some(1)
    /\ UNCHANGED << ctlVars, fsVars, prior, mVars, sumVars >>

\* The for loop ends: the list is consumed or i >= max_iterations.
LoopEnd ==
    /\ pc = "trial"
    /\ (i >= Len(param_sets) \/ i >= max_iterations)
    /\ pc' = "use_best"
    /\ UNCHANGED << ctlVars, fsVars, prior, failure, exit_status, mVars, sumVars >>

\* "Use best result": the summaries and assignments of best_labels.
UseBest ==
    /\ pc = "use_best"
    /\ IF best_labels = None
       THEN /\ pc' = "crashed"
            /\ failure' = Some("get_cluster_representatives")
            /\ exit_status' = Some(1)
       ELSE /\ pc' = "mkdir"
            /\ UNCHANGED << failure, exit_status >>
    /\ UNCHANGED << ctlVars, fsVars, prior, mVars, sumVars >>

(* ------------------------- the artifact writer ------------------------ *)

\* The cluster id json.dump writes for each row (in load order) to
\* assignments.json.
AssignedClusterIds(labels) == [r \in DOMAIN labels |-> [cluster_id |-> labels[r]]]

\* sorted(cluster_labels.keys()): the non-noise cluster ids, ascending.
RECURSIVE SortedIds(_)
SortedIds(S) ==
    IF S = {} THEN << >>
    ELSE LET m == CHOOSE x \in S : \A y \in S : x <= y
         IN  << m >> \o SortedIds(S \ {m})

\* labels_data of save_outputs: one entry per cluster id, ascending, with its
\* size (tag_stats[cluster_id]["cluster_size"]).
LabelsData(labels) ==
    LET ids == SortedIds(LabelSet(labels) \ {NOISE})
    IN  [k \in DOMAIN ids |-> [id |-> ids[k], size |-> CountOf(labels, ids[k])]]

\* metrics_data of save_outputs (created_at and variance_explained left out).
MetricsData(metrics, params) ==
    [ algorithm            |-> "hdbscan",
      parameters           |-> params,
      num_clusters         |-> metrics.num_clusters,
      noise_points         |-> metrics.noise_points,
      silhouette_score     |-> metrics.silhouette_score,
      noise_pct            |-> metrics.noise_pct,
      largest_cluster_pct  |-> metrics.largest_cluster_pct,
      cluster_sizes        |-> metrics.cluster_sizes,
      dimensionality_reduction |->
          [method |-> "PCA", original_dims |-> 1536, reduced_dims |-> PCA_DIMS] ]

\* FileData with the first candidate's parameters in the metrics file instead
\* of the selected trial's.
FileData_FirstParams(f) ==
    CASE f = "assignments.json" -> AssignedClusterIds(best_labels[1])
      [] f = "labels.json"      -> LabelsData(best_labels[1])
      [] f = "metrics.json"     -> MetricsData(best_metrics[1], param_sets[1])
      [] f = "iterations.json"  -> iterations

\* What main writes to each file of the version directory.
FileData(f) ==
    CASE f = "assignments.json" -> AssignedClusterIds(best_labels[1])
      [] f = "labels.json"      -> LabelsData(best_labels[1])
      [] f = "metrics.json"     -> MetricsData(best_metrics[1], best_params[1])
      [] f = "iterations.json"  -> iterations

\* The order of the writes: save_outputs, then the iterations log.
WriteOrder == << "assignments.json", "labels.json", "metrics.json", "iterations.json" >>

\* The position of main before the k-th write.
WritePc(k) ==
    << "write_assignments", "write_labels", "write_metrics", "write_iterations" >>[k]

AfterWrite(k) == IF k < Len(WriteOrder) THEN WritePc(k + 1) ELSE "relink"

\* version_dir.mkdir(parents=True, exist_ok=True)
Mkdir ==
    /\ pc = "mkdir"
    /\ version_dir' = TRUE
    /\ pc' = WritePc(1)
    /\ UNCHANGED << ctlVars, files, latest, prior, failure, exit_status, mVars, sumVars >>

\* with open(path, "w") as f: json.dump(data, f)
WriteFile ==
    \E k \in DOMAIN WriteOrder :
        /\ pc = WritePc(k)
        /\ files' = [files EXCEPT ![WriteOrder[k]] = Written(FileData(WriteOrder[k]))]
        /\ pc' = AfterWrite(k)
        /\ UNCHANGED << ctlVars, version_dir, latest, prior, failure, exit_status, mVars, sumVars >>

\* mkdir raises (permission, disk full).
MkdirFails ==
    /\ pc = "mkdir"
    /\ pc' = "crashed"
    /\ failure' = Some("writer")
    /\ exit_status' = Some(1)
    /\ UNCHANGED << ctlVars, fsVars, prior, mVars, sumVars >>

\* open(path, "w") raises: the file is as it was.
OpenFails ==
    \E k \in DOMAIN WriteOrder :
        /\ pc = WritePc(k)
        /\ pc' = "crashed"
        /\ failure' = Some("writer")
        /\ exit_status' = Some(1)
        /\ UNCHANGED << ctlVars, fsVars, prior, mVars, sumVars >>

\* json.dump raises after open(path, "w") truncated the file.
DumpFails ==
    \E k \in DOMAIN WriteOrder :
        /\ pc = WritePc(k)
        /\ files' = [files EXCEPT ![WriteOrder[k]] = Partial]
        /\ pc' = "crashed"
        /\ failure' = Some("writer")
        /\ exit_status' = Some(1)
        /\ UNCHANGED << ctlVars, version_dir, latest, prior, mVars, sumVars >>

\* if latest_link.exists() or latest_link.is_symlink(): latest_link.unlink()
UnlinkLatest ==
    /\ pc = "relink"
    /\ latest' = None
    /\ pc' = "symlink"
    /\ UNCHANGED << ctlVars, version_dir, files, prior, failure, exit_status, mVars, sumVars >>

\* unlink raises: latest is as it was.
UnlinkFails ==
    /\ pc = "relink"
    /\ latest # None
    /\ pc' = "crashed"
    /\ failure' = Some("writer")
    /\ exit_status' = Some(1)
    /\ UNCHANGED << ctlVars, fsVars, prior, mVars, sumVars >>

\* latest_link.symlink_to("v1")
SymlinkLatest ==
    /\ pc = "symlink"
    /\ latest' = Some("v1")
    /\ pc' = "summary"
    /\ UNCHANGED << ctlVars, version_dir, files, prior, failure, exit_status, mVars, sumVars >>

\* symlink_to raises: no latest link is left.
SymlinkFails ==
    /\ pc = "symlink"
    /\ pc' = "crashed"
    /\ failure' = Some("writer")
    /\ exit_status' = Some(1)
    /\ UNCHANGED << ctlVars, fsVars, prior, mVars, sumVars >>

\* return 0 if best_metrics else 1
Finish ==
    /\ pc = "summary"
    /\ exit_status' = Some(IF best_metrics # None THEN 0 ELSE 1)
    /\ pc' = "done"
    /\ UNCHANGED << ctlVars, fsVars, prior, failure, mVars, sumVars >>

(* ------------------------ the specification of main ------------------- *)

\* The artifacts directory a run starts from: empty, or as a completed
\* earlier run left it (the four files of v1, and latest -> v1).
InitFs ==
    \/ /\ prior = None
       /\ version_dir = FALSE
       /\ files = [f \in FileNames |-> Absent]
       /\ latest = None
    \/ /\ prior = Some("v1")
       /\ version_dir = TRUE
       /\ files = [f \in FileNames |-> Previous]
       /\ latest = Some("v1")

\* The summarizer functions have not been handed anything.
InitSumIdle ==
    /\ s_ids = << >>
    /\ s_labels = << >>
    /\ s_embeddings = << >>
    /\ s_tags = << >>
    /\ n_samples = 5
    /\ representatives = None
    /\ tag_stats = None
    /\ cluster_labels = None
    /\ assignments = None

InitMain ==
    /\ pc = "trial"
    /\ i = 0
    /\ iterations = << >>
    /\ best_metrics = None
    /\ best_labels = None
    /\ best_version = None
    /\ best_params = None
    /\ failure = None
    /\ exit_status = None

Init ==
    /\ InitMain
    /\ InitFs
    /\ InitSumIdle
    /\ m_labels = << >>
    /\ m_result = None
    /\ m_gates = None

Next ==
    \/ RunTrial
    \/ ClustererRaises
    \/ LoopEnd
    \/ UseBest
    \/ Mkdir
    \/ MkdirFails
    \/ WriteFile
    \/ OpenFails
    \/ DumpFails
    \/ UnlinkLatest
    \/ UnlinkFails
    \/ SymlinkLatest
    \/ SymlinkFails
    \/ Finish

Spec == Init /\ [][Next]_vars

(* ------------- the quality evaluator on its own labelings ------------- *)

\* Every labeling of at most MaxRows rows, the empty one included.
Labelings == UNION { [1..n -> NOISE..MaxLabel] : n \in 0..MaxRows }

InitMetrics ==
    /\ InitMain
    /\ InitSumIdle
    /\ prior = None
    /\ version_dir = FALSE
    /\ files = [f \in FileNames |-> Absent]
    /\ latest = None
    /\ m_labels \in Labelings
    /\ m_result = None
    /\ m_gates = None

\* metrics = calculate_metrics(embeddings, labels)
Evaluate ==
    /\ m_result = None
    /\ \E sil \in ScoreValues : m_result' = Some(CalculateMetrics(m_labels, sil))
    /\ UNCHANGED << pc, ctlVars, fsVars, prior, failure, exit_status, m_labels, m_gates, sumVars >>

\* passed, issues = check_quality_gates(metrics)
CheckGates ==
    /\ m_result # None
    /\ ~IsRaised(m_result[1])
    /\ m_gates = None
    /\ m_gates' = Some(CheckQualityGates(m_result[1]))
    /\ UNCHANGED << pc, ctlVars, fsVars, prior, failure, exit_status, m_labels, m_result, sumVars >>

NextMetrics == Evaluate \/ CheckGates

SpecMetrics == InitMetrics /\ [][NextMetrics]_vars

(* ------------------------------ claims -------------------------------- *)

\* The number of trials the loop can run.
NumTrials == IF Len(param_sets) < max_iterations THEN Len(param_sets) ELSE max_iterations

PassedAt(k) == iterations[k].quality_gates_passed
ScoreAt(k) == iterations[k].metrics.silhouette_score
NoPass == \A k \in DOMAIN iterations : ~PassedAt(k)

\* A QualityMetrics as the trial log keeps it.
Logged(metrics) == [k \in DOMAIN metrics \ {"cluster_sizes"} |-> metrics[k]]

\* The best-so-far selection is trial k of the log.
SelectedIs(k) ==
    /\ best_version = Some(k)
    /\ best_params = Some(param_sets[k])
    /\ best_metrics # None
    /\ Logged(best_metrics[1]) = iterations[k].metrics
    /\ best_labels # None
    /\ \E sil \in ScoreValues : CalculateMetrics(best_labels[1], sil) = best_metrics[1]

WrittenByRun(f) == files[f].state = "complete" /\ files[f].by = "run"

\* C1: first-pass-wins.  A trial that passes the gates is the last trial of
\* the log (the loop has stopped, no later ParameterSet is run), and the
\* selection and the metrics file are those of that trial, whatever the scores
\* of the failing trials before it.
C1_FirstPassWins ==
    \A k \in DOMAIN iterations :
        PassedAt(k) =>
            /\ k = Len(iterations)
            /\ pc # "trial"
            /\ SelectedIs(k)
            /\ WrittenByRun("metrics.json") =>
                  /\ files["metrics.json"].data.parameters = param_sets[k]
                  /\ files["metrics.json"].data.silhouette_score = ScoreAt(k)

\* A run that ended with the second trial passing after a failing first trial
\* of higher score.
C1_Witness ==
    /\ pc = "done"
    /\ Len(iterations) = 2
    /\ PassedAt(2)
    /\ ScoreAt(1) > ScoreAt(2)

\* Trial k has the highest score of the log and is the earliest such trial.
EarliestHighest(k) ==
    \A j \in DOMAIN iterations :
        \/ ScoreAt(j) < ScoreAt(k)
        \/ ScoreAt(j) = ScoreAt(k) /\ j >= k

\* C2: when the list is exhausted and no trial passed, the selection is the
\* trial of highest silhouette score, the earliest one on a tie.
C2_BestEffortSelection ==
    (Len(iterations) = NumTrials /\ NoPass) =>
        \E k \in DOMAIN iterations : EarliestHighest(k) /\ SelectedIs(k)

\* An exhausted run whose two last trials tie on the highest score.
C2_Witness ==
    /\ pc = "done"
    /\ Len(iterations) = NumTrials
    /\ NoPass
    /\ ScoreAt(1) < ScoreAt(2)
    /\ ScoreAt(2) = ScoreAt(3)
    /\ best_version = Some(2)

\* C3: a clusterer failure on ParameterSet i is logged as a failed trial and
\* the run goes on; the run aborts only if the list is exhausted and no trial
\* produced a labeling.
C3_ClustererFailureIsLogged ==
    failure = Some("run_clustering") =>
        /\ Len(iterations) = i + 1
        /\ ~PassedAt(i + 1)
        /\ pc = "crashed" => (i + 1 = NumTrials /\ best_labels = None)

\* C4: a run that ends with no passing trial is marked: a non-zero exit
\* status, or a gate status in the metrics file.
C4_ExhaustedRunIsMarked ==
    (pc = "done" /\ NoPass) =>
        \/ exit_status # Some(0)
        \/ "quality_gates_passed" \in DOMAIN files["metrics.json"].data

\* The version directory holds the four files of one run, all complete.
VersionComplete ==
    \/ \A f \in FileNames : files[f] = Previous
    \/ \A f \in FileNames : WrittenByRun(f)

\* C5: after a writer failure the version latest referenced before the run
\* still holds its pre-run files, and latest never references a version
\* directory holding only part of a run's files.
C5_WriterFailureKeepsPreviousVersion ==
    /\ (failure = Some("writer") /\ prior # None) =>
           \A f \in FileNames : files[f] = Previous
    /\ latest # None => VersionComplete

\* C6: latest changes only after the four files of the run are written, and a
\* latest pointer that existed before the run is never absent.
C6_LatestSwitchIsAtomic ==
    /\ latest # prior => \A f \in FileNames : WrittenByRun(f)
    /\ prior # None => latest # None

\* q extends p by at most one record and changes none of p's.
AppendsAtMostOne(p, q) ==
    /\ Len(p) <= Len(q)
    /\ Len(q) <= Len(p) + 1
    /\ \A k \in DOMAIN p : q[k] = p[k]

C7_LogInvariant ==
    /\ Len(iterations) <= NumTrials
    /\ pc = "trial" => Len(iterations) = i
    /\ \A k \in DOMAIN iterations :
          /\ iterations[k].iteration = k
          /\ iterations[k].parameters = param_sets[k]
    /\ \A j, k \in DOMAIN iterations :
          iterations[j].parameters = iterations[k].parameters => j = k
    /\ WrittenByRun("iterations.json") => files["iterations.json"].data = iterations

\* C7: controller invariant.  The log holds one record per ParameterSet
\* attempted so far, in attempt order with indices 1..k, k at most the
\* configured maximum, no ParameterSet twice; records are only appended; the
\* trial-log file holds the whole log, the trials not selected included.
C7_TrialLogAppendOnly ==
    /\ []C7_LogInvariant
    /\ [][AppendsAtMostOne(iterations, iterations')]_vars

\* A finished run of three trials that selected the second: the file holds
\* all three records.
C7_Witness ==
    /\ pc = "done"
    /\ Len(iterations) = NumTrials
    /\ best_version = Some(2)
    /\ WrittenByRun("iterations.json")
    /\ Len(files["iterations.json"].data) = NumTrials

\* pct <= gate.
PctLE(p, gate) == p.num <= gate * p.den

\* The gate names of an issue list.
IssueMetrics(issues) == {issues[k].metric : k \in DOMAIN issues}

BoolToNat(b) == IF b THEN 1 ELSE 0

\* C8: check_quality_gates passes exactly when score >= 0.3, largest-cluster
\* fraction <= 40% and noise fraction <= 20%; the issue list has exactly one
\* description per violated gate and none for a satisfied gate; pass is true
\* exactly when the list is empty.
C8_GatesAndIssues ==
    m_gates # None =>
        LET m        == m_result[1]
            g        == m_gates[1]
            lowScore == ~(m.silhouette_score >= SilhouetteGate)
            tooLarge == ~PctLE(m.largest_cluster_pct, LargestClusterGate)
            tooNoisy == ~PctLE(m.noise_pct, NoiseGate)
        IN  /\ g.passed = (~lowScore /\ ~tooLarge /\ ~tooNoisy)
            /\ g.passed = (g.issues = << >>)
            /\ Len(g.issues) = BoolToNat(lowScore) + BoolToNat(tooLarge) + BoolToNat(tooNoisy)
            /\ lowScore = ("silhouette_score" \in IssueMetrics(g.issues))
            /\ tooLarge = ("largest_cluster" \in IssueMetrics(g.issues))
            /\ tooNoisy = ("noise" \in IssueMetrics(g.issues))

\* Metrics with every value exactly at its threshold, which pass.
C8_Witness ==
    /\ m_gates # None
    /\ m_gates[1].passed
    /\ m_result[1].silhouette_score = SilhouetteGate
    /\ m_result[1].largest_cluster_pct = Pct(2, 5)
    /\ m_result[1].noise_pct = Pct(1, 5)

\* Fewer than 2 points or fewer than 2 clusters remain without the noise.
Degenerate(labels) ==
    \/ Len(labels) - CountOf(labels, NOISE) < 2
    \/ Cardinality(LabelSet(labels) \ {NOISE}) < 2

\* C9: calculate_metrics never raises, and reports a score of exactly 0.0 for
\* a degenerate labeling (the all-noise and the empty labeling included).
C9_MetricsNeverFail ==
    m_result # None =>
        /\ ~IsRaised(m_result[1])
        /\ Degenerate(m_labels) => m_result[1].silhouette_score = 0

RECURSIVE SumOver(_, _)
SumOver(f, S) ==
    IF S = {} THEN 0
    ELSE LET c == CHOOSE x \in S : TRUE
         IN  f[c] + SumOver(f, S \ {c})

\* C10: the returned metrics account for every row once: noise_points plus the
\* sum of cluster_sizes is N, cluster_sizes has num_clusters entries, none for
\* the noise sentinel.
C10_RowsAccounted ==
    (m_result # None /\ ~IsRaised(m_result[1])) =>
        LET m == m_result[1]
        IN  /\ m.noise_points + SumOver(m.cluster_sizes, DOMAIN m.cluster_sizes) = Len(m_labels)
            /\ Cardinality(DOMAIN m.cluster_sizes) = m.num_clusters
            /\ NOISE \notin DOMAIN m.cluster_sizes

\* Metrics returned for a labeling of MaxRows rows with noise and two clusters.
C10_Witness ==
    /\ m_result # None
    /\ ~IsRaised(m_result[1])
    /\ Len(m_labels) = MaxRows
    /\ m_result[1].noise_points > 0
    /\ m_result[1].num_clusters = 2

\* C17: after every pass of the trial loop the best-so-far labeling,
\* parameters, metrics and trial index are those of one logged trial; they are
\* all None before the first trial completes and none is None after; the
\* assignments, the cluster list and the metrics file are those of that trial.
C17_SelectionIsOneTrial ==
    /\ iterations = << >> =>
          /\ best_metrics = None
          /\ best_labels = None
          /\ best_version = None
          /\ best_params = None
    /\ iterations # << >> => \E k \in DOMAIN iterations : SelectedIs(k)
    /\ WrittenByRun("assignments.json") =>
          [r \in DOMAIN files["assignments.json"].data |->
              files["assignments.json"].data[r].cluster_id] = best_labels[1]
    /\ WrittenByRun("labels.json") =>
          {files["labels.json"].data[k].id : k \in DOMAIN files["labels.json"].data}
              = LabelSet(best_labels[1]) \ {NOISE}
    /\ WrittenByRun("metrics.json") =>
          LET k == best_version[1]
              d == files["metrics.json"].data
          IN  /\ d.parameters = param_sets[k]
              /\ d.parameters = best_params[1]
              /\ d.silhouette_score = ScoreAt(k)
              /\ d.num_clusters = iterations[k].metrics.num_clusters
              /\ d.noise_points = iterations[k].metrics.noise_points
              /\ d.cluster_sizes = ClusterSizes(best_labels[1])

\* A finished run whose third trial was selected over two trials of lower
\* score, with all the files written.
C17_Witness ==
    /\ pc = "done"
    /\ Len(iterations) = NumTrials
    /\ best_version = Some(3)
    /\ ScoreAt(1) < ScoreAt(3)
    /\ ScoreAt(2) < ScoreAt(3)
    /\ \A f \in FileNames : WrittenByRun(f)

(* -------------- centroids, representatives, assignments --------------- *)
(* A distance is kept as its square, the exact fraction [num, den]: the    *)
(* square root is increasing, so order and equality of distances are those *)
(* of their squares.  A centroid is kept as [sum, n], the mean being       *)
(* sum / n coordinate by coordinate.                                       *)

\* Most rows handed to the summarizer functions.
SumRows == 3

\* Rows of the reduced embedding matrix in the model.
Points == { << 0, 0 >>, << 2, 0 >>, << 0, 2 >> }

\* Cluster ids and the noise sentinel in the labelings handed to the
\* summarizer functions.
SumLabelValues == {NOISE, 0, 1}

\* Values of n_samples: the default and one below the largest cluster.
SampleCounts == {2, 5}

RECURSIVE SumSeq(_)
SumSeq(q) == IF q = << >> THEN 0 ELSE Head(q) + SumSeq(Tail(q))

\* The row indices r with labels[r] = c, ascending: the rows a boolean mask
\* labels == c selects.
MaskRows(labels, c) == SortedIds({r \in DOMAIN labels : labels[r] = c})

\* rows.mean(axis=0) of a non-empty sequence of rows.
MeanOf(rows) ==
    [ sum |-> [j \in DOMAIN rows[1] |-> SumSeq([k \in DOMAIN rows |-> rows[k][j]])],
      n   |-> Len(rows) ]

\* euclidean_distances([x], [centroid])[0][0], squared.
SqDistance(x, centroid) ==
    [ num |-> SumSeq([j \in DOMAIN x |->
                 (centroid.n * x[j] - centroid.sum[j]) * (centroid.n * x[j] - centroid.sum[j])]),
      den |-> centroid.n * centroid.n ]

DistLE(a, b) == a.num * b.den <= b.num * a.den
DistEq(a, b) == a.num * b.den = b.num * a.den

\* sorted(set(labels[labels != -1]))
UniqueLabels(labels) == LabelSet(labels) \ {NOISE}

\* centroid = cluster_embeddings.mean(axis=0) in get_cluster_representatives.
RepCentroid(labels, embeddings, c) ==
    LET rows == MaskRows(labels, c)
    IN  MeanOf([k \in DOMAIN rows |-> embeddings[rows[k]]])

\* The results np.argsort(distances) can return: its default sort is not
\* stable, so any order of the indices that sorts the distances.
Argsorts(distances) ==
    { p \in [DOMAIN distances -> DOMAIN distances] :
        /\ \A a, b \in DOMAIN distances : a # b => p[a] # p[b]
        /\ \A a, b \in DOMAIN distances :
              a < b => DistLE(distances[p[a]], distances[p[b]]) }

\* seq[:n]
Take(seq, n) == SubSeq(seq, 1, IF n < Len(seq) THEN n ELSE Len(seq))

\* The entries get_cluster_representatives can build for cluster c.
RepresentativesOf(ids, labels, embeddings, n, c) ==
    LET rows      == MaskRows(labels, c)
        centroid  == RepCentroid(labels, embeddings, c)
        distances == [k \in DOMAIN rows |-> SqDistance(embeddings[rows[k]], centroid)]
    IN  { [ conversation_ids |-> [j \in DOMAIN Take(p, n) |-> ids[rows[p[j]]]],
            distances        |-> [j \in DOMAIN Take(p, n) |-> distances[p[j]]] ] :
          p \in Argsorts(distances) }

\* The dictionaries get_cluster_representatives(df, labels, embeddings,
\* n_samples) can return.
GetClusterRepresentatives(ids, labels, embeddings, n) ==
    { reps \in [UniqueLabels(labels) ->
                   UNION {RepresentativesOf(ids, labels, embeddings, n, c) :
                             c \in UniqueLabels(labels)}] :
        \A c \in UniqueLabels(labels) :
            reps[c] \in RepresentativesOf(ids, labels, embeddings, n, c) }

\* AssignCentroid taking the mean of all the non-noise rows.
AssignCentroid_AllRows(labels, embeddings, c) ==
    LET rows == SortedIds({r \in DOMAIN labels : labels[r] # NOISE})
    IN  MeanOf([k \in DOMAIN rows |-> embeddings[rows[k]]])

\* centroids[cluster_id] = embeddings[mask].mean(axis=0) in
\* calculate_assignments.
AssignCentroid(labels, embeddings, c) ==
    LET rows == MaskRows(labels, c)
    IN  MeanOf([k \in DOMAIN rows |-> embeddings[rows[k]]])

\* AssignmentOfRow giving a noise row a distance of zero.
AssignmentOfRow_NoiseDistance(labels, embeddings, r) ==
    IF labels[r] = NOISE
    THEN [cluster_id |-> NOISE, distance_to_centroid |-> Some([num |-> 0, den |-> 1])]
    ELSE [ cluster_id |-> labels[r],
           distance_to_centroid |->
               Some(SqDistance(embeddings[r], AssignCentroid(labels, embeddings, labels[r]))) ]

\* The assignment calculate_assignments builds for row r.
AssignmentOfRow(labels, embeddings, r) ==
    IF labels[r] = NOISE
    THEN [cluster_id |-> NOISE, distance_to_centroid |-> None]
    ELSE [ cluster_id |-> labels[r],
           distance_to_centroid |->
               Some(SqDistance(embeddings[r], AssignCentroid(labels, embeddings, labels[r]))) ]

\* calculate_assignments(df, labels, embeddings): a dictionary keyed by
\* conversation id, a later row replacing an earlier row of the same id.
CalculateAssignments(ids, labels, embeddings) ==
    [ id \in {ids[r] : r \in DOMAIN ids} |->
        LET last == CHOOSE r \in DOMAIN ids :
                        ids[r] = id /\ \A q \in DOMAIN ids : ids[q] = id => q <= r
        IN  AssignmentOfRow(labels, embeddings, last) ]

\* The conversation ids of n rows: all different, or the last row repeating
\* the id of the first.
IdSeqs(n) ==
    { [r \in 1..n |-> r], [r \in 1..n |-> IF r = n THEN 1 ELSE r] }

InitAssign ==
    /\ InitMain
    /\ prior = None
    /\ version_dir = FALSE
    /\ files = [f \in FileNames |-> Absent]
    /\ latest = None
    /\ m_labels = << >>
    /\ m_result = None
    /\ m_gates = None
    /\ \E n \in 0..SumRows :
          /\ s_ids \in IdSeqs(n)
          /\ s_labels \in [1..n -> SumLabelValues]
          /\ s_embeddings \in [1..n -> Points]
    /\ s_tags = << >>
    /\ n_samples \in SampleCounts
    /\ representatives = None
    /\ tag_stats = None
    /\ cluster_labels = None
    /\ assignments = None

\* representatives = get_cluster_representatives(df, labels, embeddings)
Represent ==
    /\ representatives = None
    /\ \E reps \in GetClusterRepresentatives(s_ids, s_labels, s_embeddings, n_samples) :
          representatives' = Some(reps)
    /\ UNCHANGED << mainVars, mVars, s_ids, s_labels, s_embeddings, s_tags, n_samples,
                    tag_stats, cluster_labels, assignments >>

\* assignments = calculate_assignments(df, labels, embeddings)
Assign ==
    /\ assignments = None
    /\ assignments' = Some(CalculateAssignments(s_ids, s_labels, s_embeddings))
    /\ UNCHANGED << mainVars, mVars, s_ids, s_labels, s_embeddings, s_tags, n_samples,
                    representatives, tag_stats, cluster_labels >>

NextAssign == Represent \/ Assign

SpecAssign == InitAssign /\ [][NextAssign]_vars

(* ------------- claims on representatives and assignments ------------- *)

\* The conversation ids are all different.
UniqueIds == \A q, r \in DOMAIN s_ids : s_ids[q] = s_ids[r] => q = r

\* The row of conversation id (for unique ids).
RowOf(id) == CHOOSE r \in DOMAIN s_ids : s_ids[r] = id

\* C11: the centroid calculate_assignments uses for a cluster is the one
\* get_cluster_representatives uses for it, and every representative's
\* summary distance is the distance recorded in that item's assignment.
C11_AssignmentDistanceMatchesSummary ==
    (representatives # None /\ assignments # None /\ UniqueIds) =>
        \A c \in DOMAIN representatives[1] :
            /\ AssignCentroid(s_labels, s_embeddings, c) = RepCentroid(s_labels, s_embeddings, c)
            /\ \A j \in DOMAIN representatives[1][c].conversation_ids :
                  LET a == assignments[1][representatives[1][c].conversation_ids[j]]
                  IN  /\ a.cluster_id = c
                      /\ a.distance_to_centroid # None
                      /\ DistEq(a.distance_to_centroid[1], representatives[1][c].distances[j])

\* Two clusters summarized and assigned, with a representative off its
\* centroid.
C11_Witness ==
    /\ representatives # None
    /\ assignments # None
    /\ UniqueIds
    /\ DOMAIN representatives[1] = {0, 1}
    /\ \E j \in DOMAIN representatives[1][0].distances :
          representatives[1][0].distances[j].num > 0

\* C12: calculate_assignments emits one assignment per conversation id, N of
\* them when the ids are unique; each carries its row's entry of the labeling,
\* and its distance is null exactly when that entry is the noise sentinel.
C12_OneAssignmentPerRecord ==
    assignments # None =>
        /\ DOMAIN assignments[1] = {s_ids[r] : r \in DOMAIN s_ids}
        /\ UniqueIds =>
              /\ Cardinality(DOMAIN assignments[1]) = Len(s_ids)
              /\ \A r \in DOMAIN s_ids :
                    /\ assignments[1][s_ids[r]].cluster_id = s_labels[r]
                    /\ (assignments[1][s_ids[r]].distance_to_centroid = None)
                          <=> (s_labels[r] = NOISE)

\* Assignments of SumRows rows of unique ids, a noise row and a clustered row
\* among them.
C12_Witness ==
    /\ assignments # None
    /\ UniqueIds
    /\ Len(s_ids) = SumRows
    /\ \E r \in DOMAIN s_ids : assignments[1][s_ids[r]].distance_to_centroid = None
    /\ \E r \in DOMAIN s_ids : assignments[1][s_ids[r]].distance_to_centroid # None

\* C16: the representatives of a cluster are min(M, size) distinct members of
\* it with the smallest distances to its centroid, closest first, members at
\* equal distance in their original row order.
C16_RepresentativesClosestFirst ==
    (representatives # None /\ UniqueIds) =>
        \A c \in DOMAIN representatives[1] :
            LET rep     == representatives[1][c]
                members == {r \in DOMAIN s_labels : s_labels[r] = c}
                k       == Len(rep.conversation_ids)
                chosen  == {RowOf(rep.conversation_ids[j]) : j \in 1..k}
                dist(r) == SqDistance(s_embeddings[r], RepCentroid(s_labels, s_embeddings, c))
            IN  /\ k = IF n_samples < Cardinality(members)
                       THEN n_samples ELSE Cardinality(members)
                /\ Cardinality(chosen) = k
                /\ chosen \subseteq members
                /\ \A r \in chosen, q \in members \ chosen : DistLE(dist(r), dist(q))
                /\ \A j \in 1..k : DistEq(rep.distances[j], dist(RowOf(rep.conversation_ids[j])))
                /\ \A a, b \in 1..k :
                      a < b =>
                          /\ DistLE(rep.distances[a], rep.distances[b])
                          /\ DistEq(rep.distances[a], rep.distances[b]) =>
                                RowOf(rep.conversation_ids[a]) < RowOf(rep.conversation_ids[b])

(* ------------------ get_tag_distribution_per_cluster ------------------ *)

\* The tag names of the model, in ascending (string) order.
TagNames == << "billing", "refund" >>

\* sorted_tags[:10]
TopTagsKept == 10

\* The values a cell of df["tags"] takes in the model.
TagCells ==
    { [kind |-> "none"],
      [kind |-> "list",    tags |-> << >>],
      [kind |-> "list",    tags |-> << "billing" >>],
      [kind |-> "ndarray", tags |-> << "refund" >>],
      [kind |-> "ndarray", tags |-> << "refund", "billing" >>] }

\* get_tags_from_row(tags)
GetTagsFromRow(cell) ==
    IF cell.kind \in {"list", "ndarray"} THEN cell.tags ELSE << >>

\* all_tags of a cluster: the tags of its rows, in row order.
RECURSIVE FlattenTags(_, _)
FlattenTags(tags, rows) ==
    IF rows = << >> THEN << >>
    ELSE GetTagsFromRow(tags[Head(rows)]) \o FlattenTags(tags, Tail(rows))

\* The keys of tag_counts in insertion order: each tag where it first occurs.
RECURSIVE FirstSeen(_)
FirstSeen(all) ==
    IF all = << >> THEN << >>
    ELSE LET before == FirstSeen(SubSeq(all, 1, Len(all) - 1))
             t      == all[Len(all)]
         IN  IF \E k \in DOMAIN before : before[k] = t THEN before ELSE Append(before, t)

\* tag_counts.items(): (tag, count) pairs in insertion order.
TagCounts(all) ==
    LET keys == FirstSeen(all)
    IN  [k \in DOMAIN keys |->
            << keys[k], Cardinality({j \in DOMAIN all : all[j] = keys[k]}) >>]

\* sorted(items, key=lambda x: x[1], reverse=True): a stable sort, items of
\* equal count keep their order.
RECURSIVE SortByCountDesc(_)
SortByCountDesc(items) ==
    IF items = << >> THEN << >>
    ELSE LET done == SortByCountDesc(SubSeq(items, 1, Len(items) - 1))
             x    == items[Len(items)]
             at   == Cardinality({k \in DOMAIN done : done[k][2] >= x[2]})
         IN  SubSeq(done, 1, at) \o << x >> \o SubSeq(done, at + 1, Len(done))

\* tag_stats[cluster_id]
TagStatsOf(labels, tags, c) ==
    LET rows        == MaskRows(labels, c)
        tag_counts  == TagCounts(FlattenTags(tags, rows))
        sorted_tags == SortByCountDesc(tag_counts)
        top_count   == IF sorted_tags # << >> THEN sorted_tags[1][2] ELSE 0
    IN  [ top_tags     |-> Take(sorted_tags, TopTagsKept),
          tag_coverage |-> [num |-> top_count, den |-> Len(rows)],
          unique_tags  |-> Len(tag_counts),
          cluster_size |-> Len(rows) ]

\* get_tag_distribution_per_cluster(df, labels)
GetTagDistributionPerCluster(labels, tags) ==
    [c \in UniqueLabels(labels) |-> TagStatsOf(labels, tags, c)]

InitTags ==
    /\ InitMain
    /\ prior = None
    /\ version_dir = FALSE
    /\ files = [f \in FileNames |-> Absent]
    /\ latest = None
    /\ m_labels = << >>
    /\ m_result = None
    /\ m_gates = None
    /\ s_ids = << >>
    /\ s_embeddings = << >>
    /\ \E n \in 0..SumRows :
          /\ s_labels \in [1..n -> SumLabelValues]
          /\ s_tags \in [1..n -> TagCells]
    /\ n_samples = 5
    /\ representatives = None
    /\ tag_stats = None
    /\ cluster_labels = None
    /\ assignments = None

\* tag_stats = get_tag_distribution_per_cluster(df, labels)
TagDistribution ==
    /\ tag_stats = None
    /\ tag_stats' = Some(GetTagDistributionPerCluster(s_labels, s_tags))
    /\ UNCHANGED << mainVars, mVars, s_ids, s_labels, s_embeddings, s_tags, n_samples,
                    representatives, cluster_labels, assignments >>

NextTags == TagDistribution

SpecTags == InitTags /\ [][NextTags]_vars

\* Tag s comes before tag t in ascending name order.
NameLess(s, t) ==
    \E a, b \in DOMAIN TagNames : a < b /\ TagNames[a] = s /\ TagNames[b] = t

\* C15: the tag profile of every cluster is sorted by descending count and,
\* among tags of equal count, by ascending tag name; tag coverage is the first
\* entry's count over the cluster size, or 0 when the cluster has no tags.
C15_TagProfileSorted ==
    tag_stats # None =>
        \A c \in DOMAIN tag_stats[1] :
            LET st == tag_stats[1][c]
            IN  /\ \A a, b \in DOMAIN st.top_tags :
                      a < b =>
                          \/ st.top_tags[a][2] > st.top_tags[b][2]
                          \/ /\ st.top_tags[a][2] = st.top_tags[b][2]
                             /\ NameLess(st.top_tags[a][1], st.top_tags[b][1])
                /\ IF st.top_tags = << >>
                   THEN st.tag_coverage.num = 0
                   ELSE st.tag_coverage.num * CountOf(s_labels, c)
                            = st.top_tags[1][2] * st.tag_coverage.den

(* --------------- generate_labels_from_tags_and_messages --------------- *)
(* A Python str is kept as the sequence of its characters.                 *)

\* Most representative messages of a cluster handed to the label generator.
MaxMessages == 4

\* "top tag has more than 5 occurrences"
TopTagThreshold == 5

\* messages[:3]
KeywordMessages == 3

\* msg[:200]
MsgPrefixLen == 200

\* Counter(words).most_common(2)
KeywordCount == 2

LowerLetters == << "a", "b", "c", "d", "e", "f", "g", "h", "i", "j", "k", "l", "m", "n", "o", "p", "q", "r", "s", "t", "u", "v", "w", "x", "y", "z" >>
UpperLetters == << "A", "B", "C", "D", "E", "F", "G", "H", "I", "J", "K", "L", "M", "N", "O", "P", "Q", "R", "S", "T", "U", "V", "W", "X", "Y", "Z" >>
DigitChars == << "0", "1", "2", "3", "4", "5", "6", "7", "8", "9" >>

Chars(q) == { q[k] : k \in DOMAIN q }
IndexIn(q, c) == CHOOSE k \in DOMAIN q : q[k] = c
IsLower(c) == c \in Chars(LowerLetters)
IsUpper(c) == c \in Chars(UpperLetters)
IsLetter(c) == IsLower(c) \/ IsUpper(c)
IsDigit(c) == c \in Chars(DigitChars)

\* c.isalnum()
IsAlnum(c) == IsLetter(c) \/ IsDigit(c)

\* c.isspace()
IsSpace(c) == c = " "

ToLower(c) == IF IsUpper(c) THEN LowerLetters[IndexIn(UpperLetters, c)] ELSE c
ToUpper(c) == IF IsLower(c) THEN UpperLetters[IndexIn(LowerLetters, c)] ELSE c

\* s.lower()
LowerStr(s) == [k \in DOMAIN s |-> ToLower(s[k])]

\* s.title(): a letter is upper-cased after a character that is no letter (or
\* at the start) and lower-cased after a letter.
TitleStr(s) ==
    [k \in DOMAIN s |->
        IF ~IsLetter(s[k]) THEN s[k]
        ELSE IF k = 1 \/ ~IsLetter(s[k - 1]) THEN ToUpper(s[k]) ELSE ToLower(s[k])]

\* s.replace("_", " ")
ReplaceUnderscore(s) == [k \in DOMAIN s |-> IF s[k] = "_" THEN " " ELSE s[k]]

\* top_tags[0][0].replace("_", " ").title()
Humanize(tag) == TitleStr(ReplaceUnderscore(tag))

\* s.split(): the maximal runs of characters that are not whitespace, in the
\* order of the text; the k-th run goes from the k-th start to the k-th end.
Split(s) ==
    LET starts == SortedIds({k \in DOMAIN s :
                       ~IsSpace(s[k]) /\ (k = 1 \/ IsSpace(s[k - 1]))})
        ends == SortedIds({k \in DOMAIN s :
                     ~IsSpace(s[k]) /\ (k = Len(s) \/ IsSpace(s[k + 1]))})
    IN  [k \in DOMAIN starts |-> SubSeq(s, starts[k], ends[k])]

\* ''.join(c for c in w if c.isalnum())
StripNonAlnum(w) == SelectSeq(w, IsAlnum)

\* stop_words
StopWords ==
    { << "t", "h", "e" >>,
      << "a" >>,
      << "a", "n" >>,
      << "i", "s" >>,
      << "w", "a", "s" >>,
      << "a", "r", "e" >>,
      << "w", "e", "r", "e" >>,
      << "i" >>,
      << "y", "o", "u" >>,
      << "m", "y" >>,
      << "y", "o", "u", "r" >>,
      << "t", "o" >>,
      << "f", "o", "r" >>,
      << "o", "f" >>,
      << "a", "n", "d" >>,
      << "i", "n" >>,
      << "o", "n" >>,
      << "w", "i", "t", "h" >>,
      << "t", "h", "i", "s" >>,
      << "t", "h", "a", "t" >>,
      << "i", "t" >>,
      << "b", "e" >>,
      << "h", "a", "v", "e" >>,
      << "h", "a", "s" >>,
      << "h", "a", "d" >>,
      << "c", "a", "n" >>,
      << "w", "o", "u", "l", "d" >>,
      << "l", "i", "k", "e" >>,
      << "j", "u", "s", "t" >>,
      << "i", "f" >>,
      << "m", "e" >>,
      << "w", "e" >>,
      << "u", "s" >>,
      << "a", "s" >>,
      << "a", "t" >>,
      << "b", "u", "t" >>,
      << "n", "o", "t" >>,
      << "s", "o" >>,
      << "d", "o" >>,
      << "d", "o", "e", "s" >>,
      << "d", "i", "d" >>,
      << "w", "i", "l", "l" >>,
      << "w", "h", "e", "n" >>,
      << "w", "h", "a", "t" >>,
      << "h", "o", "w" >>,
      << "a", "l", "l" >>,
      << "f", "r", "o", "m" >> }

\* len(w) > 3 and w not in stop_words
IsKeyword(w) == Len(w) > 3 /\ w \notin StopWords

\* The words one message adds: msg[:200].lower().split(), each stripped of its
\* non-alphanumerics, the keywords kept.
WordsOfMessage(msg) ==
    LET msg_words == Split(LowerStr(Take(msg, MsgPrefixLen)))
    IN  SelectSeq([k \in DOMAIN msg_words |-> StripNonAlnum(msg_words[k])], IsKeyword)

\* words after the loop over messages[:3].
RECURSIVE WordsOfMessages(_)
WordsOfMessages(messages) ==
    IF messages = << >> THEN << >>
    ELSE WordsOfMessage(Head(messages)) \o WordsOfMessages(Tail(messages))

\* " ".join(parts)
RECURSIVE JoinWithSpace(_)
JoinWithSpace(parts) ==
    IF parts = << >> THEN << >>
    ELSE IF Len(parts) = 1 THEN parts[1]
    ELSE parts[1] \o << " " >> \o JoinWithSpace(Tail(parts))

\* str(n) for n >= 0
RECURSIVE IntToStr(_)
IntToStr(n) ==
    IF n < 10 THEN << DigitChars[n + 1] >>
    ELSE IntToStr(n \div 10) \o << DigitChars[(n % 10) + 1] >>

\* f"Cluster {cluster_id}"
Placeholder(cluster_id) ==
    << "C", "l", "u", "s", "t", "e", "r", " " >> \o IntToStr(cluster_id)

\* " ".join(w[0].title() for w in Counter(words).most_common(2)): the counts
\* in first-met order, sorted by descending count (ties keep that order).
KeywordLabel(words) ==
    LET common == Take(SortByCountDesc(TagCounts(words)), KeywordCount)
    IN  JoinWithSpace([k \in DOMAIN common |-> TitleStr(common[k][1])])

\* TopTagQualifies with >= for >: a count of exactly 5 qualifies.
TopTagQualifies_AtThreshold(top_tags) ==
    top_tags # << >> /\ top_tags[1][2] >= TopTagThreshold

\* top_tags and top_tags[0][1] > 5
TopTagQualifies(top_tags) ==
    top_tags # << >> /\ top_tags[1][2] > TopTagThreshold

\* The label of one cluster.
LabelOf(cluster_id, reps, stats) ==
    LET top_tags == IF cluster_id \in DOMAIN stats
                    THEN stats[cluster_id].top_tags ELSE << >>
    IN  IF TopTagQualifies(top_tags)
        THEN Humanize(top_tags[1][1])
        ELSE LET words == WordsOfMessages(Take(reps[cluster_id].messages, KeywordMessages))
             IN  IF words # << >> THEN KeywordLabel(words) ELSE Placeholder(cluster_id)

\* generate_labels_from_tags_and_messages(representatives, tag_stats)
GenerateLabels(reps, stats) ==
    [c \in DOMAIN reps |-> LabelOf(c, reps, stats)]

(* inputs of the label generator *)

\* The tags of the tag profiles in the model: "refund", "billing_issue", the
\* empty tag and a tag of underscores.
TagRefund == << "r", "e", "f", "u", "n", "d" >>
TagBillingIssue == << "b", "i", "l", "l", "i", "n", "g", "_", "i", "s", "s", "u", "e" >>
TagEmpty == << >>
TagUnderscores == << "_", "_", "_" >>

\* The top_tags lists of the model.
TopTagChoices ==
    { << >>,
      << << TagRefund, 8 >> >>,
      << << TagRefund, 5 >> >>,
      << << TagBillingIssue, 6 >>, << TagRefund, 6 >> >>,
      << << TagEmpty, 6 >> >>,
      << << TagUnderscores, 7 >>, << TagRefund, 2 >> >> }

\* A message of 200 characters that are not alphanumeric, then " refund".
LongMessage == [k \in 1..MsgPrefixLen |-> "!"] \o << " ", "r", "e", "f", "u", "n", "d" >>

\* The first_message texts of the model.
MessageChoices ==
    { << "t", "h", "e", " ", "f", "r", "o", "m" >>,
      << "I", " ", "c", "a", "n", "'", "t", " ", "L", "O", "G", "I", "N" >>,
      << "l", "o", "g", "i", "n", ":", " ", "r", "e", "f", "u", "n", "d" >>,
      LongMessage }

\* The cluster ids of the model.
ClusterIdChoices == {0, 12}

InitLabel ==
    /\ InitMain
    /\ prior = None
    /\ version_dir = FALSE
    /\ files = [f \in FileNames |-> Absent]
    /\ latest = None
    /\ m_labels = << >>
    /\ m_result = None
    /\ m_gates = None
    /\ s_ids = << >>
    /\ s_labels = << >>
    /\ s_embeddings = << >>
    /\ s_tags = << >>
    /\ n_samples = 5
    /\ \E c \in ClusterIdChoices, n \in 0..MaxMessages :
          /\ \E msgs \in [1..n -> MessageChoices] :
                representatives = Some([d \in {c} |-> [messages |-> msgs]])
          /\ \/ tag_stats = Some([d \in {} |-> [top_tags |-> << >>]])
             \/ \E top \in TopTagChoices :
                   tag_stats = Some([d \in {c} |-> [top_tags |-> top]])
    /\ cluster_labels = None
    /\ assignments = None

\* cluster_labels = generate_labels_from_tags_and_messages(representatives,
\* tag_stats)
GenerateClusterLabels ==
    /\ cluster_labels = None
    /\ cluster_labels' = Some(GenerateLabels(representatives[1], tag_stats[1]))
    /\ UNCHANGED << mainVars, mVars, s_ids, s_labels, s_embeddings, s_tags, n_samples,
                    representatives, tag_stats, assignments >>

NextLabel == GenerateClusterLabels

SpecLabel == InitLabel /\ [][NextLabel]_vars

(* label generator: claims *)

\* The top_tags of cluster c in the tag profile handed to the generator.
ProfileOf(c) ==
    IF c \in DOMAIN tag_stats[1] THEN tag_stats[1][c].top_tags ELSE << >>

\* The label has a character that is not a blank.
NonBlank(label) == \E k \in DOMAIN label : label[k] # " "

\* C13: for every cluster, whatever its tag profile and representative
\* messages (tags that are empty or made of underscores included), the
\* generated label is non-empty and has at least one non-blank character.
C13_LabelNeverBlank ==
    cluster_labels # None =>
        \A c \in DOMAIN cluster_labels[1] : NonBlank(cluster_labels[1][c])

\* The usable tokens of a text: its whitespace-separated words, lower-cased
\* and stripped of non-alphanumerics, longer than 3 and no stop word.
UsableTokens(text) ==
    LET ws == Split(LowerStr(text))
    IN  { w \in { StripNonAlnum(ws[k]) : k \in DOMAIN ws } :
            Len(w) > 3 /\ w \notin StopWords }

\* The usable tokens of the first three representative messages of c, each
\* message cut to its first `cut` characters.
UsableOfCluster(c, cut) ==
    LET msgs == Take(representatives[1][c].messages, 3)
    IN  UNION { UsableTokens(Take(msgs[k], cut)) : k \in DOMAIN msgs }

\* The length of the longest message of the model: a cut there removes nothing.
WholeText == Len(LongMessage)

\* A keyword label over a set of tokens: one token, or two different ones,
\* title-cased and joined by a space.
IsKeywordLabel(label, tokens) ==
    \/ \E w \in tokens : label = TitleStr(w)
    \/ \E w1, w2 \in tokens :
          w1 # w2 /\ label = TitleStr(w1) \o << " " >> \o TitleStr(w2)

\* The chain tag -> keyword -> placeholder, the keyword tokens being those of
\* the first three messages cut to `cut` characters.
FollowsChain(c, cut) ==
    LET label == cluster_labels[1][c]
        top == ProfileOf(c)
        tokens == UsableOfCluster(c, cut)
    IN  IF top # << >> /\ top[1][2] > 5
        THEN label = TitleStr(ReplaceUnderscore(top[1][1]))
        ELSE IF tokens # {}
             THEN IsKeywordLabel(label, tokens)
             ELSE label = Placeholder(c)

\* C14 as stated: the label is the humanized top tag exactly when its count
\* exceeds 5; otherwise a keyword label whenever the first representative
\* messages hold a usable token; the placeholder only when they hold none.
C14_ChainOverWholeMessages ==
    cluster_labels # None =>
        \A c \in DOMAIN cluster_labels[1] : FollowsChain(c, WholeText)

\* C14 amended: the same chain, the usable tokens being those of the first
\* 200 characters of each of the first three representative messages.
C14_ChainOverMessagePrefixes ==
    cluster_labels # None =>
        \A c \in DOMAIN cluster_labels[1] : FollowsChain(c, 200)

\* A top tag counted exactly 5 times does not name the cluster: the label is
\* a keyword label of the messages, not the humanized tag.
C14_Witness ==
    /\ cluster_labels # None
    /\ \E c \in DOMAIN cluster_labels[1] :
          /\ ProfileOf(c) # << >>
          /\ ProfileOf(c)[1][2] = 5
          /\ UsableOfCluster(c, 200) # {}
          /\ IsKeywordLabel(cluster_labels[1][c], UsableOfCluster(c, 200))
          /\ cluster_labels[1][c] # TitleStr(ReplaceUnderscore(ProfileOf(c)[1][1]))

====
